---- MODULE Spec2Model ----
(***************************************************************************)
(* Model of the Elmitec LEEM image decoder LEEMImage (src/LEEMImage.py):   *)
(* the fixed header reader, the tagged metadata decoder, the pixel payload *)
(* reader and the post-processing helpers.                                 *)
(*                                                                         *)
(* Representation.  A file is the sequence of its bytes (0..255).  A text  *)
(* (a metadata key, a field name, a unit) is the sequence of its Unicode   *)
(* code points, so that a name read from the file and a fixed key such as  *)
(* 'width' are the same value when they are the same text.  A 32-bit float *)
(* is its bit pattern, most significant byte first; a metadata value is a  *)
(* record [k, n, e, s, u] whose field k names its Python type.             *)
(* The interpreter is Python 3 (sys.version_info[0] > 2) on a little-      *)
(* endian host.                                                            *)
(***************************************************************************)
EXTENDS Integers, Sequences, FiniteSets, TLC

VARIABLES
    file,           \* the bytes of the file self.filename
    pc,             \* position of the constructor / of the caller
    f_open,         \* TRUE while the file object f of the with-block is open
    f_pos,          \* position of the file object f
    metadata,       \* self.metadata
    noimg,          \* self.noimg
    attachedRecipeSize, \* local attachedRecipeSize
    versleemdata,   \* self.versleemdata
    img_header,     \* local img_header, the metadata block
    position,       \* local position
    b_iter,         \* number of bytes the iterator b_iter has delivered
    offset,         \* local offset; Unbound while it has never been assigned
    last_tag,       \* local b: the byte the for-loop delivered last; -1 before
    data,           \* self.data: the pixel grid, rows of samples
    err,            \* the exception that ended the constructor, or "none"
    ret             \* what the last helper call returned or raised

vars == <<file, pc, f_open, f_pos, metadata, noimg, attachedRecipeSize,
          versleemdata, img_header, position, b_iter, offset, last_tag,
          data, err, ret>>

----------------------------------------------------------------------------
(* Bounds of the model *)

\* largest number of chunks (records or stray bytes) a generated metadata
\* block is built from
MaxChunks == 2

\* largest width and height of a generated file
MaxDim == 2

\* largest number of bytes cut from the end of a generated file
MaxCut == 5

----------------------------------------------------------------------------
(* Sequences, bytes and Python slices *)

Min(a, b) == IF a < b THEN a ELSE b

Max(a, b) == IF a > b THEN a ELSE b

Rep(n, b) == [i \in 1..n |-> b]

\* Python s[a:b] for 0 <= a, with b clamped to len(s)
Slice(s, a, b) == SubSeq(s, a + 1, Min(b, Len(s)))

\* Python s[a:]
SliceFrom(s, a) == SubSeq(s, a + 1, Len(s))

Reverse(s) == [i \in 1..Len(s) |-> s[Len(s) + 1 - i]]

\* index (1-based) of the first occurrence of byte c in s, 0 if there is none
IndexOf(s, c) ==
    IF \E i \in 1..Len(s) : s[i] = c
    THEN CHOOSE i \in 1..Len(s) : s[i] = c /\ \A j \in 1..(i - 1) : s[j] # c
    ELSE 0

\* s.split(b'\x00')[0]: the bytes before the first NUL, all of s without one
SplitNul0(s) ==
    LET i == IndexOf(s, 0) IN IF i = 0 THEN s ELSE SubSeq(s, 1, i - 1)

\* TRUE when s.split(b'\x00') has an element [1]
HasSplitNul1(s) == IndexOf(s, 0) # 0

\* s.split(b'\x00')[1]: the bytes between the first NUL and the second
SplitNul1(s) ==
    SplitNul0(SliceFrom(s, IndexOf(s, 0)))

\* struct.unpack('<h', bs)[0] for a 2-byte string: signed, little-endian
Unpack_h(bs) ==
    LET u == bs[1] + 256 * bs[2] IN IF u >= 32768 THEN u - 65536 ELSE u

\* struct.unpack('<f', bs)[0] for a 4-byte string: the float with this bit
\* pattern, written most significant byte first
Unpack_f(bs) == <<bs[4], bs[3], bs[2], bs[1]>>

\* struct.unpack('<Q', bs)[0] for an 8-byte string: the digits of the
\* number in base 256, most significant first
Unpack_Q(bs) == Reverse(bs)

\* one uint16 sample of np.fromfile(dtype=np.uint16) on a little-endian host
Sample16(bs) == bs[1] + 256 * bs[2]

----------------------------------------------------------------------------
(* Metadata values and keys *)

MdInt(n) == [k |-> "int", n |-> n, e |-> 0, s |-> <<>>, u |-> <<>>]

MdBytes(s) == [k |-> "bytes", n |-> 0, e |-> 0, s |-> s, u |-> <<>>]

MdStr(s) == [k |-> "str", n |-> 0, e |-> 0, s |-> s, u |-> <<>>]

MdTime(s) == [k |-> "datetime", n |-> 0, e |-> 0, s |-> s, u |-> <<>>]

MdFloat(s) == [k |-> "float", n |-> 0, e |-> 0, s |-> s, u |-> <<>>]

\* the list [value, unit] of a float32 and a text
MdPair(s, u) == [k |-> "pair", n |-> 0, e |-> 0, s |-> s, u |-> u]

MdNone == [k |-> "None", n |-> 0, e |-> 0, s |-> <<>>, u |-> <<>>]

MdBool(b) == [k |-> "bool", n |-> IF b THEN 1 ELSE 0, e |-> 0, s |-> <<>>, u |-> <<>>]

\* the list [float(text), unit]: kind "num" is the number n * 10^e,
\* kinds "inf" and "nan" are the special floats (n is the sign)
MdParsed(p, u) == [k |-> p.k, n |-> p.n, e |-> p.e, s |-> <<>>, u |-> u]

\* self.metadata[key] = v
Put(md, key, v) ==
    [x \in (DOMAIN md) \cup {key} |-> IF x = key THEN v ELSE md[x]]

K_id == <<105, 100>>  \* "id"
K_size == <<115, 105, 122, 101>>  \* "size"
K_version == <<118, 101, 114, 115, 105, 111, 110>>  \* "version"
K_bitsperpix == <<98, 105, 116, 115, 112, 101, 114, 112, 105, 120>>  \* "bitsperpix"
K_width == <<119, 105, 100, 116, 104>>  \* "width"
K_height == <<104, 101, 105, 103, 104, 116>>  \* "height"
K_recipe == <<114, 101, 99, 105, 112, 101>>  \* "recipe"
K_isize == <<105, 115, 105, 122, 101>>  \* "isize"
K_iversion == <<105, 118, 101, 114, 115, 105, 111, 110>>  \* "iversion"
K_colorscale_low == <<99, 111, 108, 111, 114, 115, 99, 97, 108, 101, 95, 108, 111, 119>>  \* "colorscale_low"
K_colorscale_high == <<99, 111, 108, 111, 114, 115, 99, 97, 108, 101, 95, 104, 105, 103, 104>>  \* "colorscale_high"
K_timestamp == <<116, 105, 109, 101, 115, 116, 97, 109, 112>>  \* "timestamp"
K_mask_xshift == <<109, 97, 115, 107, 95, 120, 115, 104, 105, 102, 116>>  \* "mask_xshift"
K_mask_yshift == <<109, 97, 115, 107, 95, 121, 115, 104, 105, 102, 116>>  \* "mask_yshift"
K_usemask == <<117, 115, 101, 109, 97, 115, 107>>  \* "usemask"
K_att_markupsize == <<97, 116, 116, 95, 109, 97, 114, 107, 117, 112, 115, 105, 122, 101>>  \* "att_markupsize"
K_spin == <<115, 112, 105, 110>>  \* "spin"
K_FOV_cal_factor == <<70, 79, 86, 32, 99, 97, 108, 46, 32, 102, 97, 99, 116, 111, 114>>  \* "FOV cal. factor"
K_LEED == <<76, 69, 69, 68>>  \* "LEED"
K_FOV == <<70, 79, 86>>  \* "FOV"
K_Camera_Exposure == <<67, 97, 109, 101, 114, 97, 32, 69, 120, 112, 111, 115, 117, 114, 101>>  \* "Camera Exposure"
K_Average_Images == <<65, 118, 101, 114, 97, 103, 101, 32, 73, 109, 97, 103, 101, 115>>  \* "Average Images"
K_Mitutoyo_X == <<77, 105, 116, 117, 116, 111, 121, 111, 32, 88>>  \* "Mitutoyo X"
K_Mitutoyo_Y == <<77, 105, 116, 117, 116, 111, 121, 111, 32, 89>>  \* "Mitutoyo Y"
K_Image_Title == <<73, 109, 97, 103, 101, 32, 84, 105, 116, 108, 101>>  \* "Image Title"
K_MirrorState1 == <<77, 105, 114, 114, 111, 114, 83, 116, 97, 116, 101, 49>>  \* "MirrorState1"
K_MirrorState2 == <<77, 105, 114, 114, 111, 114, 83, 116, 97, 116, 101, 50>>  \* "MirrorState2"
K_MCPscreen == <<77, 67, 80, 115, 99, 114, 101, 101, 110>>  \* "MCPscreen"
K_MCPchannelplate == <<77, 67, 80, 99, 104, 97, 110, 110, 101, 108, 112, 108, 97, 116, 101>>  \* "MCPchannelplate"

\* the unit texts 's', 'mm', 'V' and '\xb5m' the decoder attaches itself
U_s == <<115>>

U_mm == <<109, 109>>

U_V == <<86>>

U_um == <<181, 109>>

\* units_dict of read_field: '', 'V', 'mA', 'A', '°C', ' K', 'mV', 'pA', 'nA', 'µA'
units_dict ==
    << <<>>, <<86>>, <<109, 65>>, <<65>>, <<176, 67>>, <<32, 75>>,
       <<109, 86>>, <<112, 65>>, <<110, 65>>, <<181, 65>> >>

\* the value of a local that has never been assigned
Unbound == -1

----------------------------------------------------------------------------
(* Text: bytes.decode('cp1252') and float(str) *)

\* code points of the bytes 0x80..0x9f in cp1252; -1 where the byte is
\* undefined and decode raises UnicodeDecodeError
Cp1252High ==
    << 8364, -1, 8218, 402, 8222, 8230, 8224, 8225, 710, 8240, 352, 8249,
       338, -1, 381, -1, -1, 8216, 8217, 8220, 8221, 8226, 8211, 8212, 732,
       8482, 353, 8250, 339, -1, 382, 376 >>

Cp1252(b) == IF b >= 128 /\ b <= 159 THEN Cp1252High[b - 127] ELSE b

\* TRUE when bs.decode('cp1252') returns
Decodable(bs) == \A i \in 1..Len(bs) : Cp1252(bs[i]) # -1

\* bs.decode('cp1252')
Decode(bs) == [i \in 1..Len(bs) |-> Cp1252(bs[i])]

\* TRUE when text s starts with text p: s[0:len(p)] == p
StartsWith(s, p) == Len(s) >= Len(p) /\ SubSeq(s, 1, Len(p)) = p

\* s.split(sep)[0] for a non-empty text sep: s up to the first sep
SplitText0(s, sep) ==
    LET hits == {i \in 1..(Len(s) - Len(sep) + 1) :
                    SubSeq(s, i, i + Len(sep) - 1) = sep}
    IN  IF hits = {} THEN s
        ELSE SubSeq(s, 1, (CHOOSE i \in hits : \A j \in hits : i <= j) - 1)

IsDigit(c) == c >= 48 /\ c <= 57

AllDigits(s) == \A i \in 1..Len(s) : IsDigit(s[i])

\* the characters float() strips: ASCII whitespace, and NO-BREAK SPACE
\* (the only other space a cp1252 text can hold), which it turns into ' '
FloatSpace == {9, 10, 11, 12, 13, 32, 160}

Strip(s) ==
    LET keep == {i \in 1..Len(s) : s[i] \notin FloatSpace}
    IN  IF keep = {} THEN <<>>
        ELSE SubSeq(s, CHOOSE i \in keep : \A j \in keep : i <= j,
                       CHOOSE i \in keep : \A j \in keep : i >= j)

\* ASCII lower case of a text
Lower(s) == [i \in 1..Len(s) |-> IF s[i] >= 65 /\ s[i] <= 90 THEN s[i] + 32 ELSE s[i]]

\* an underscore is legal in a float literal only between two digits
UnderscoresOk(s) ==
    \A i \in 1..Len(s) :
        s[i] = 95 => /\ i > 1 /\ i < Len(s)
                     /\ IsDigit(s[i - 1]) /\ IsDigit(s[i + 1])

RECURSIVE DropUnderscores(_)
DropUnderscores(s) ==
    IF s = <<>> THEN <<>>
    ELSE IF s[1] = 95 THEN DropUnderscores(Tail(s))
    ELSE <<s[1]>> \o DropUnderscores(Tail(s))

RECURSIVE DigitsVal(_)
DigitsVal(s) ==
    IF s = <<>> THEN 0 ELSE 10 * DigitsVal(SubSeq(s, 1, Len(s) - 1)) + (s[Len(s)] - 48)

\* n * 10^e with the trailing zeros of n moved into e
RECURSIVE Normal(_, _)
Normal(n, e) ==
    IF n = 0 THEN [n |-> 0, e |-> 0]
    ELSE IF n % 10 = 0 THEN Normal(n \div 10, e + 1)
    ELSE [n |-> n, e |-> e]

IsSign(c) == c = 43 \/ c = 45

T_inf == <<105, 110, 102>>

T_infinity == <<105, 110, 102, 105, 110, 105, 116, 121>>

T_nan == <<110, 97, 110>>

\* float(s) of a text s: [k |-> "fail"] where Python raises ValueError,
\* else kind "num" (the number n * 10^e), "inf" or "nan" (n is the sign)
ParseFloat(s) ==
    LET t    == Strip(s)
        neg  == t # <<>> /\ t[1] = 45
        sgn  == IF neg THEN -1 ELSE 1
        raw  == IF t # <<>> /\ IsSign(t[1]) THEN Tail(t) ELSE t
        body == DropUnderscores(raw)
        low  == Lower(raw)
        epos == IF \E i \in 1..Len(body) : body[i] \in {69, 101}
                THEN CHOOSE i \in 1..Len(body) :
                        /\ body[i] \in {69, 101}
                        /\ \A j \in 1..(i - 1) : body[j] \notin {69, 101}
                ELSE 0
        mant == IF epos = 0 THEN body ELSE SubSeq(body, 1, epos - 1)
        expo == IF epos = 0 THEN <<>> ELSE SubSeq(body, epos + 1, Len(body))
        eneg == expo # <<>> /\ expo[1] = 45
        edig == IF expo # <<>> /\ IsSign(expo[1]) THEN Tail(expo) ELSE expo
        dot  == IndexOf(mant, 46)
        ip   == IF dot = 0 THEN mant ELSE SubSeq(mant, 1, dot - 1)
        fp   == IF dot = 0 THEN <<>> ELSE SubSeq(mant, dot + 1, Len(mant))
        ok   == /\ UnderscoresOk(raw)
                /\ AllDigits(ip) /\ AllDigits(fp)
                /\ Len(ip) + Len(fp) >= 1
                /\ epos # 0 => (edig # <<>> /\ AllDigits(edig))
        ev   == IF eneg THEN 0 - DigitsVal(edig) ELSE DigitsVal(edig)
        nm   == Normal(sgn * DigitsVal(ip \o fp), ev - Len(fp))
    IN  IF low = T_inf \/ low = T_infinity
          THEN [k |-> "inf", n |-> sgn, e |-> 0]
        ELSE IF low = T_nan THEN [k |-> "nan", n |-> sgn, e |-> 0]
        ELSE IF ok THEN [k |-> "num", n |-> nm.n, e |-> nm.e]
        ELSE [k |-> "fail", n |-> 0, e |-> 0]

----------------------------------------------------------------------------
(* The record handlers of the tag loop.  Each returns what the branch does *)
(* to self.metadata (md), the value it assigns to offset (off) and the     *)
(* exception it raises (err, "none" when it returns).                      *)

\* data fields with standard format in Bremen, the fields known for LUND,
\* and the Wehnelt tag of ALBA
known_tags ==
    { 11, 38, 39, 44, 158, 159, 160, 161, 162, 163, 164, 165, 149, 175,
      184, 169, 128, 129, 130, 131, 132, 133, 134, 135, 136, 137, 138,
      140, 141, 142, 143, 144, 145, 146, 147, 148, 150, 151, 152, 153,
      154, 155, 168, 170, 171, 173, 174 }
    \cup
    { 210, 203, 185, 208, 215, 206, 172, 211, 221, 220, 197, 177,
      178, 180, 181, 202, 190, 191, 194, 195, 196, 214, 198, 199,
      182, 179, 200, 201, 176, 187, 94, 192, 213, 209, 183, 186,
      212, 156, 157, 205, 204, 188, 189, 207 }
    \cup
    { 55 }

varian_tags == {106, 107, 108, 109, 235, 236, 237}

\* the tags that have a branch of their own in the loop
branch_tags == {255, 110, 104, 100, 233, 240, 242, 243, 244}

Result(md, off, e) == [md |-> md, off |-> off, err |-> e]

\* read_field(header, iterable, current_position), with the enclosing
\* position it reads the value at, followed by the assignment of line 157
read_field(header, current_position, pos, md, off) ==
    LET temp == SplitNul0(SliceFrom(header, current_position + 1))
        n    == Len(temp)
        vb   == Slice(header, pos + n + 2, pos + n + 6)
    IN  IF ~Decodable(SubSeq(temp, 1, n - 1))
          THEN Result(md, off, "UnicodeDecodeError")
        ELSE IF n = 0 THEN Result(md, off, "IndexError")
        ELSE IF ~IsDigit(temp[n]) THEN Result(md, off, "ValueError")
        ELSE IF Len(vb) # 4 THEN Result(md, off, "struct.error")
        ELSE Result(Put(md, Decode(SubSeq(temp, 1, n - 1)),
                        MdPair(Unpack_f(vb), units_dict[temp[n] - 47])),
                    n + 5, "none")

\* the FOV branch (tag 110)
read_fov(header, pos, md, off) ==
    LET temp    == SplitNul0(SliceFrom(header, pos + 1))
        n       == Len(temp)
        fov_str == Decode(temp)
        vb      == Slice(header, pos + n + 2, pos + n + 6)
        md1     == Put(md, K_FOV_cal_factor, MdFloat(Unpack_f(vb)))
        md2     == Put(md1, K_LEED, MdBool(FALSE))
        num     == ParseFloat(SplitText0(fov_str, U_um))
    IN  IF ~Decodable(temp) THEN Result(md, off, "UnicodeDecodeError")
        ELSE IF Len(vb) # 4 THEN Result(md, off, "struct.error")
        ELSE IF StartsWith(fov_str, <<76, 69, 69, 68>>)      \* 'LEED'
          THEN Result(Put(Put(md1, K_LEED, MdBool(TRUE)), K_FOV, MdNone),
                      n + 5, "none")
        ELSE IF StartsWith(fov_str, <<110, 111, 110, 101>>)  \* 'none'
          THEN Result(Put(md1, K_FOV, MdNone), n + 5, "none")
        ELSE IF num.k # "fail"
          THEN Result(Put(md2, K_FOV, MdParsed(num, U_um)), n + 5, "none")
        ELSE Result(md2, n + 5, "none")

\* the Camera Exposure branch skipping the float and the count only
read_exposure_five(header, pos, md, off) ==
    LET vb  == Slice(header, pos + 1, pos + 5)
        md1 == Put(md, K_Camera_Exposure, MdPair(Unpack_f(vb), U_s))
    IN  IF Len(vb) # 4 THEN Result(md, off, "struct.error")
        ELSE IF pos + 5 >= Len(header) THEN Result(md1, off, "IndexError")
        ELSE Result(Put(md1, K_Average_Images, MdInt(header[pos + 6])),
                    5, "none")

\* the Camera Exposure branch (tag 104)
read_exposure(header, pos, md, off) ==
    LET vb  == Slice(header, pos + 1, pos + 5)
        md1 == Put(md, K_Camera_Exposure, MdPair(Unpack_f(vb), U_s))
    IN  IF Len(vb) # 4 THEN Result(md, off, "struct.error")
        ELSE IF pos + 5 >= Len(header) THEN Result(md1, off, "IndexError")
        ELSE Result(Put(md1, K_Average_Images, MdInt(header[pos + 6])),
                    6, "none")

\* read_varian(header, iterable, current_position), with the enclosing
\* position it reads the value at, followed by the assignment of line 224
read_varian(header, current_position, pos, md, off) ==
    LET rest   == SliceFrom(header, current_position + 1)
        temp_1 == SplitNul0(rest)
        temp_2 == SplitNul1(rest)
        n      == Len(temp_1) + Len(temp_2)
        vb     == Slice(header, pos + n + 3, pos + n + 7)
    IN  IF ~HasSplitNul1(rest) THEN Result(md, off, "IndexError")
        ELSE IF ~Decodable(temp_1) \/ ~Decodable(temp_2)
          THEN Result(md, off, "UnicodeDecodeError")
        ELSE IF Len(vb) # 4 THEN Result(md, off, "struct.error")
        ELSE Result(Put(md, Decode(temp_1), MdPair(Unpack_f(vb), Decode(temp_2))),
                    n + 6, "none")

\* the Mitutoyo branch (tag 100)
read_mitutoyo(header, pos, md, off) ==
    LET xb  == Slice(header, pos + 1, pos + 5)
        yb  == Slice(header, pos + 5, pos + 9)
        md1 == Put(md, K_Mitutoyo_X, MdPair(Unpack_f(xb), U_mm))
    IN  IF Len(xb) # 4 THEN Result(md, off, "struct.error")
        ELSE IF Len(yb) # 4 THEN Result(md1, off, "struct.error")
        ELSE Result(Put(md1, K_Mitutoyo_Y, MdPair(Unpack_f(yb), U_mm)), 8, "none")

\* the Image Title branch (tag 233)
read_title(header, pos, md, off) ==
    LET temp == SplitNul0(SliceFrom(header, pos + 1))
    IN  IF ~Decodable(temp) THEN Result(md, off, "UnicodeDecodeError")
        ELSE Result(Put(md, K_Image_Title, MdStr(Decode(temp))),
                    Len(temp) + 1, "none")

\* the MirrorState1 / MirrorState2 branches (tags 240, 242)
read_mirror(header, pos, md, off, key) ==
    IF pos + 1 >= Len(header) THEN Result(md, off, "IndexError")
    ELSE Result(Put(md, key, MdInt(header[pos + 2])), 2, "none")

\* the MCPscreen / MCPchannelplate branches (tags 243, 244)
read_mcp(header, pos, md, off, key) ==
    LET vb == Slice(header, pos + 1, pos + 5)
    IN  IF Len(vb) # 4 THEN Result(md, off, "struct.error")
        ELSE Result(Put(md, key, MdPair(Unpack_f(vb), U_V)), 4, "none")

\* the else branch: the tag is logged, nothing is assigned
read_unknown(header, pos, md, off) == Result(md, off, "none")

----------------------------------------------------------------------------
(* The file object f and the fixed header *)

\* f.read(n) for n >= 0 at position pos: short at the end of the file
FRead(pos, n) == Slice(file, pos, pos + n)

\* position of f after f.read(n) at position pos
FReadPos(pos, n) == IF pos >= Len(file) THEN pos ELSE Min(pos + n, Len(file))

\* a < b for two numbers given by equally many base-256 digits
RECURSIVE DigitsLess(_, _)
DigitsLess(a, b) ==
    IF a = <<>> THEN FALSE
    ELSE IF a[1] # b[1] THEN a[1] < b[1]
    ELSE DigitsLess(Tail(a), Tail(b))

\* ticks of 100 ns from 1601-01-01 to 10000-01-01 (265046774400 s), the
\* first value datetime cannot hold, in base 256
DatetimeLimit == <<36, 200, 90, 94, 209, 192, 64, 0>>

\* convert_ad_timestamp(timestamp): the datetime, kept as its ticks, or the
\* OverflowError of the datetime addition (the float division rounds, so
\* the last few ticks below the limit overflow as well)
convert_ad_timestamp(ticks) ==
    IF DigitsLess(ticks, DatetimeLimit)
    THEN [err |-> "none", v |-> MdTime(ticks)]
    ELSE [err |-> "OverflowError", v |-> MdNone]

Field(op, key, attr, n) == [op |-> op, key |-> key, attr |-> attr, n |-> n]

\* lines 75-90: id, size, version, bitsperpix, 6 + 8 skipped, width, height,
\* noimg, attachedRecipeSize, 56 skipped
Header1 ==
    << Field("id", K_id, "", 20),
       Field("h", K_size, "", 2), Field("h", K_version, "", 2),
       Field("h", K_bitsperpix, "", 2),
       Field("seek", <<>>, "", 6), Field("seek", <<>>, "", 8),
       Field("h", K_width, "", 2), Field("h", K_height, "", 2),
       Field("attr", <<>>, "noimg", 2),
       Field("attr", <<>>, "attachedRecipeSize", 2),
       Field("seek", <<>>, "", 56) >>

\* lines 98-114: isize, iversion, colorscale_low, colorscale_high,
\* timestamp, mask_xshift, mask_yshift, usemask, 1 skipped, att_markupsize,
\* spin, versleemdata
Header2 ==
    << Field("h", K_isize, "", 2), Field("h", K_iversion, "", 2),
       Field("h", K_colorscale_low, "", 2), Field("h", K_colorscale_high, "", 2),
       Field("Q", K_timestamp, "", 8),
       Field("h", K_mask_xshift, "", 2), Field("h", K_mask_yshift, "", 2),
       Field("raw", K_usemask, "", 1),
       Field("seek", <<>>, "", 1),
       Field("h", K_att_markupsize, "", 2), Field("h", K_spin, "", 2),
       Field("attr", <<>>, "versleemdata", 2) >>

\* one statement of the header reader on the state st = [pos, md, attrs, err]
ReadField(fd, st) ==
    LET bs  == FRead(st.pos, fd.n)
        np  == FReadPos(st.pos, fd.n)
        ts  == convert_ad_timestamp(Unpack_Q(bs))
    IN  CASE fd.op = "seek" -> [st EXCEPT !.pos = st.pos + fd.n]
          [] fd.op = "id"   ->
                [st EXCEPT !.pos = np, !.md = Put(st.md, fd.key, MdBytes(SplitNul0(bs)))]
          [] fd.op = "raw"  ->
                [st EXCEPT !.pos = np, !.md = Put(st.md, fd.key, MdBytes(bs))]
          [] fd.op = "h"    ->
                IF Len(bs) # 2 THEN [st EXCEPT !.pos = np, !.err = "struct.error"]
                ELSE [st EXCEPT !.pos = np, !.md = Put(st.md, fd.key, MdInt(Unpack_h(bs)))]
          [] fd.op = "attr" ->
                IF Len(bs) # 2 THEN [st EXCEPT !.pos = np, !.err = "struct.error"]
                ELSE [st EXCEPT !.pos = np, !.attrs = Put(st.attrs, fd.attr, Unpack_h(bs))]
          [] fd.op = "Q"    ->
                IF Len(bs) # 8 THEN [st EXCEPT !.pos = np, !.err = "struct.error"]
                ELSE IF ts.err # "none" THEN [st EXCEPT !.pos = np, !.err = ts.err]
                ELSE [st EXCEPT !.pos = np, !.md = Put(st.md, fd.key, ts.v)]

\* the statements layout[i..] in order, stopping at the first exception
RECURSIVE ReadFields(_, _, _)
ReadFields(layout, i, st) ==
    IF i > Len(layout) \/ st.err # "none" THEN st
    ELSE ReadFields(layout, i + 1, ReadField(layout[i], st))

NoAttrs == [a \in {} |-> 0]

HeaderState(pos, md) == [pos |-> pos, md |-> md, attrs |-> NoAttrs, err |-> "none"]

----------------------------------------------------------------------------
(* The constructor LEEMImage(filename): __init__ and _load_file *)

\* an exception that leaves the constructor with f as it is
Raise_leaks(e) ==
    /\ pc' = "error"
    /\ err' = e
    /\ f_open' = f_open

\* an exception leaves the with-block, which closes f, and the constructor
Raise(e) ==
    /\ pc' = "error"
    /\ err' = e
    /\ f_open' = FALSE

\* line 73: with open(self.filename, 'rb') as f
Open ==
    /\ pc = "open"
    /\ pc' = "header1"
    /\ f_open' = TRUE
    /\ f_pos' = 0
    /\ UNCHANGED <<file, metadata, noimg, attachedRecipeSize, versleemdata,
                   img_header, position, b_iter, offset, last_tag, data, err, ret>>

\* lines 75-90
ReadHeader1 ==
    /\ pc = "header1"
    /\ LET st == ReadFields(Header1, 1, HeaderState(f_pos, metadata))
       IN  /\ f_pos' = st.pos
           /\ metadata' = st.md
           /\ IF st.err # "none"
              THEN /\ Raise(st.err)
                   /\ UNCHANGED <<noimg, attachedRecipeSize>>
              ELSE /\ pc' = "recipe"
                   /\ noimg' = st.attrs["noimg"]
                   /\ attachedRecipeSize' = st.attrs["attachedRecipeSize"]
                   /\ UNCHANGED <<err, f_open>>
    /\ UNCHANGED <<file, versleemdata, img_header, position, b_iter, offset,
                   last_tag, data, ret>>

\* lines 93-95: the recipe is read when attachedRecipeSize is not zero;
\* f.read(-1) reads to the end of the file, f.read(n) raises for n < -1,
\* and a seek to a negative position raises
ReadRecipe ==
    /\ pc = "recipe"
    /\ LET n    == attachedRecipeSize
           bs   == IF n = -1 THEN SliceFrom(file, f_pos) ELSE FRead(f_pos, n)
           rpos == IF n = -1 THEN Max(f_pos, Len(file)) ELSE FReadPos(f_pos, n)
       IN  IF n = 0
           THEN /\ pc' = "header2"
                /\ UNCHANGED <<f_pos, metadata, err, f_open>>
           ELSE IF n < -1
           THEN /\ Raise("ValueError")
                /\ UNCHANGED <<f_pos, metadata>>
           ELSE IF rpos + 128 - n < 0
           THEN /\ Raise("OSError")
                /\ f_pos' = rpos
                /\ metadata' = Put(metadata, K_recipe, MdBytes(bs))
           ELSE /\ pc' = "header2"
                /\ f_pos' = rpos + 128 - n
                /\ metadata' = Put(metadata, K_recipe, MdBytes(bs))
                /\ UNCHANGED <<err, f_open>>
    /\ UNCHANGED <<file, noimg, attachedRecipeSize, versleemdata, img_header,
                   position, b_iter, offset, last_tag, data, ret>>

\* lines 98-114
ReadHeader2 ==
    /\ pc = "header2"
    /\ LET st == ReadFields(Header2, 1, HeaderState(f_pos, metadata))
       IN  /\ f_pos' = st.pos
           /\ metadata' = st.md
           /\ IF st.err # "none"
              THEN /\ Raise(st.err)
                   /\ UNCHANGED versleemdata
              ELSE /\ pc' = "block"
                   /\ versleemdata' = st.attrs["versleemdata"]
                   /\ UNCHANGED <<err, f_open>>
    /\ UNCHANGED <<file, noimg, attachedRecipeSize, img_header, position,
                   b_iter, offset, last_tag, data, ret>>

\* lines 121-130: the metadata block is read, position and b_iter start at
\* its first byte
ReadBlock ==
    /\ pc = "block"
    /\ LET v    == versleemdata
           bpos == IF v = 2 THEN f_pos ELSE f_pos + 388
           n    == IF v = 2 THEN 256 ELSE v
       IN  IF n < -1
           THEN /\ Raise("ValueError")
                /\ f_pos' = bpos
                /\ UNCHANGED <<img_header, position, b_iter>>
           ELSE /\ pc' = "tags"
                /\ img_header' = IF n = -1 THEN SliceFrom(file, bpos)
                                 ELSE FRead(bpos, n)
                /\ f_pos' = IF n = -1 THEN Max(bpos, Len(file))
                            ELSE FReadPos(bpos, n)
                /\ position' = 0
                /\ b_iter' = 0
                /\ UNCHANGED <<err, f_open>>
    /\ UNCHANGED <<file, metadata, noimg, attachedRecipeSize, versleemdata,
                   offset, last_tag, data, ret>>

\* TRUE when the for-loop of line 145 gets a byte from b_iter
HasNext == b_iter < Len(img_header)

\* the byte the for-loop gets from b_iter
NextByte == img_header[b_iter + 1]

\* the epilogue adding offset, without the tag byte, to position
Advance_short(r) ==
    /\ last_tag' = NextByte
    /\ metadata' = r.md
    /\ IF r.err # "none"
       THEN /\ Raise(r.err)
            /\ b_iter' = b_iter + 1
            /\ UNCHANGED <<offset, position>>
       ELSE IF r.off = Unbound
       THEN /\ Raise("UnboundLocalError")
            /\ b_iter' = b_iter + 1
            /\ UNCHANGED <<offset, position>>
       ELSE IF b_iter + 1 + r.off > Len(img_header)
       THEN /\ Raise("StopIteration")
            /\ b_iter' = Len(img_header)
            /\ offset' = r.off
            /\ UNCHANGED position
       ELSE /\ b_iter' = b_iter + 1 + r.off
            /\ position' = position + r.off
            /\ offset' = r.off
            /\ UNCHANGED <<pc, err, f_open>>
    /\ UNCHANGED <<file, f_pos, noimg, attachedRecipeSize, versleemdata,
                   img_header, data, ret>>

\* lines 283-284 after a branch with result r: offset bytes are taken from
\* b_iter, which raises StopIteration when it runs out, and position moves;
\* an exception of the branch ends the constructor before that
Advance(r) ==
    /\ last_tag' = NextByte
    /\ metadata' = r.md
    /\ IF r.err # "none"
       THEN /\ Raise(r.err)
            /\ b_iter' = b_iter + 1
            /\ UNCHANGED <<offset, position>>
       ELSE IF r.off = Unbound
       THEN /\ Raise("UnboundLocalError")
            /\ b_iter' = b_iter + 1
            /\ UNCHANGED <<offset, position>>
       ELSE IF b_iter + 1 + r.off > Len(img_header)
       THEN /\ Raise("StopIteration")
            /\ b_iter' = Len(img_header)
            /\ offset' = r.off
            /\ UNCHANGED position
       ELSE /\ b_iter' = b_iter + 1 + r.off
            /\ position' = position + r.off + 1
            /\ offset' = r.off
            /\ UNCHANGED <<pc, err, f_open>>
    /\ UNCHANGED <<file, f_pos, noimg, attachedRecipeSize, versleemdata,
                   img_header, data, ret>>

InLoop == pc = "tags" /\ HasNext

\* tag 255 passed over like a record without payload
TagStop_skipped ==
    /\ InLoop /\ NextByte = 255
    /\ b_iter' = b_iter + 1
    /\ position' = position + 1
    /\ last_tag' = 255
    /\ UNCHANGED <<file, pc, f_open, f_pos, metadata, noimg, attachedRecipeSize,
                   versleemdata, img_header, offset, data, err, ret>>

\* lines 152-153: tag 255 ends the loop
TagStop ==
    /\ InLoop /\ NextByte = 255
    /\ pc' = "pixels"
    /\ b_iter' = b_iter + 1
    /\ last_tag' = 255
    /\ UNCHANGED <<file, f_open, f_pos, metadata, noimg, attachedRecipeSize,
                   versleemdata, img_header, position, offset, data, err, ret>>

\* line 145 with b_iter exhausted: the loop ends
LoopEnd ==
    /\ pc = "tags" /\ ~HasNext
    /\ pc' = "pixels"
    /\ UNCHANGED <<file, f_open, f_pos, metadata, noimg, attachedRecipeSize,
                   versleemdata, img_header, position, b_iter, offset,
                   last_tag, data, err, ret>>

\* lines 155-159
TagField ==
    /\ InLoop /\ NextByte \in known_tags
    /\ Advance(read_field(img_header, position, position, metadata, offset))

\* lines 161-190
TagFOV ==
    /\ InLoop /\ NextByte = 110
    /\ Advance(read_fov(img_header, position, metadata, offset))

\* lines 193-219
TagExposure ==
    /\ InLoop /\ NextByte = 104
    /\ Advance(read_exposure(img_header, position, metadata, offset))

\* lines 221-224
TagVarian ==
    /\ InLoop /\ NextByte \in varian_tags
    /\ Advance(read_varian(img_header, position, position, metadata, offset))

\* lines 226-237
TagMitutoyo ==
    /\ InLoop /\ NextByte = 100
    /\ Advance(read_mitutoyo(img_header, position, metadata, offset))

\* lines 240-245
TagTitle ==
    /\ InLoop /\ NextByte = 233
    /\ Advance(read_title(img_header, position, metadata, offset))

\* lines 252-260
TagMirror ==
    /\ InLoop /\ NextByte \in {240, 242}
    /\ Advance(read_mirror(img_header, position, metadata, offset,
                           IF NextByte = 240 THEN K_MirrorState1 ELSE K_MirrorState2))

\* lines 262-273
TagMCP ==
    /\ InLoop /\ NextByte \in {243, 244}
    /\ Advance(read_mcp(img_header, position, metadata, offset,
                        IF NextByte = 243 THEN K_MCPscreen ELSE K_MCPchannelplate))

\* lines 275-279: any other tag
TagUnknown ==
    /\ InLoop
    /\ NextByte \notin known_tags \cup varian_tags \cup branch_tags
    /\ Advance(read_unknown(img_header, position, metadata, offset))

----------------------------------------------------------------------------
(* Numbers of the pixel grids.  A number is the fraction n / d with d > 0  *)
(* in lowest terms; d = 0 is the float inf (n = 1) or nan (n = 0).  The    *)
(* rounding of float arithmetic is not modelled.                          *)

RECURSIVE Gcd(_, _)
Gcd(a, b) == IF b = 0 THEN a ELSE Gcd(b, a % b)

Abs(a) == IF a < 0 THEN 0 - a ELSE a

\* the fraction n / d for d > 0
Frac(n, d) == LET g == Gcd(Abs(n), d) IN [n |-> n \div g, d |-> d \div g]

Num(n) == [n |-> n, d |-> 1]

NumInf == [n |-> 1, d |-> 0]

NumNan == [n |-> 0, d |-> 0]

IsNan(x) == x.d = 0 /\ x.n = 0

IsFinite(x) == x.d # 0

\* the least common multiple of two denominators
Lcm(a, b) == (a \div Gcd(a, b)) * b

\* x < y for two finite numbers
NumLess(x, y) ==
    LET l == Lcm(x.d, y.d) IN x.n * (l \div x.d) < y.n * (l \div y.d)

NumSub(x, y) ==
    LET l == Lcm(x.d, y.d) IN Frac(x.n * (l \div x.d) - y.n * (l \div y.d), l)

NumAdd(x, y) ==
    LET l == Lcm(x.d, y.d) IN Frac(x.n * (l \div x.d) + y.n * (l \div y.d), l)

\* (a / b) / (c / d) for a >= 0, c > 0, cancelled before it is multiplied out
Quot(a, b, c, d) ==
    LET g1 == Gcd(a, c)
        g2 == Gcd(b, d)
    IN  Frac((a \div g1) * (d \div g2), (b \div g2) * (c \div g1))

\* x / y for numbers x, y >= 0, as numpy divides: 0/0 and inf/inf are nan,
\* x/0 is inf
NumDiv(x, y) ==
    IF IsNan(x) \/ IsNan(y) THEN NumNan
    ELSE IF ~IsFinite(x) THEN (IF IsFinite(y) THEN NumInf ELSE NumNan)
    ELSE IF ~IsFinite(y) THEN Num(0)
    ELSE IF y.n = 0 THEN (IF x.n = 0 THEN NumNan ELSE NumInf)
    ELSE Quot(x.n, x.d, y.n, y.d)

\* the elements of a grid, row after row
RECURSIVE Flatten(_)
Flatten(g) == IF g = <<>> THEN <<>> ELSE Head(g) \o Flatten(Tail(g))

\* the largest of the finite numbers xs[i..] and best
RECURSIVE MaxFrom(_, _, _)
MaxFrom(xs, i, best) ==
    IF i > Len(xs) THEN best
    ELSE MaxFrom(xs, i + 1, IF NumLess(best, xs[i]) THEN xs[i] ELSE best)

\* the smallest of the finite numbers xs[i..] and best
RECURSIVE MinFrom(_, _, _)
MinFrom(xs, i, best) ==
    IF i > Len(xs) THEN best
    ELSE MinFrom(xs, i + 1, IF NumLess(xs[i], best) THEN xs[i] ELSE best)

\* np.max of a non-empty sequence of numbers >= 0: nan if it holds a nan
ArrMax(xs) ==
    IF \E i \in 1..Len(xs) : IsNan(xs[i]) THEN NumNan
    ELSE IF \E i \in 1..Len(xs) : ~IsFinite(xs[i]) THEN NumInf
    ELSE MaxFrom(xs, 2, xs[1])

\* np.min of a non-empty sequence of finite numbers
ArrMin(xs) == MinFrom(xs, 2, xs[1])

\* a grid with every element divided by the number m
GridDiv(g, m) == [i \in 1..Len(g) |-> [j \in 1..Len(g[i]) |-> NumDiv(g[i][j], m)]]

\* the rows left in file order
flipud_kept(g) == g

\* np.flipud(g)
flipud(g) == Reverse(g)

\* the array reshaped to w rows of h columns
reshape_swapped(a, h, w) == [i \in 1..w |-> [j \in 1..h |-> a[(i - 1) * h + j]]]

\* a.reshape([h, w]) of a flat array of h * w elements, 0 <= h, 0 <= w
reshape(a, h, w) == [i \in 1..h |-> [j \in 1..w |-> a[(i - 1) * w + j]]]

\* np.fromfile(f, dtype=np.uint16) at position pos <= len(file): the
\* samples from pos to the end of the file
fromfile(pos) ==
    [k \in 1..((Len(file) - pos) \div 2) |->
        Num(Sample16(<<file[pos + 2 * k - 1], file[pos + 2 * k]>>))]

\* lines 287-292: the pixel payload is read from the end of the file and
\* the with-block is left.  A width or height replaced by a list makes the
\* seek argument a list (TypeError); a seek before the start of the file
\* raises OSError; np.fromfile at a position past the end of the file asks
\* for a negative number of items and reshape takes at most one negative
\* dimension, which must divide the array (ValueError).
ReadPixels ==
    /\ pc = "pixels"
    /\ LET hv   == metadata[K_height]
           wv   == metadata[K_width]
           h    == hv.n
           w    == wv.n
           spos == Len(file) - 2 * h * w
       IN  IF hv.k # "int" \/ wv.k # "int"
           THEN Raise("TypeError") /\ UNCHANGED <<f_pos, data>>
           ELSE IF spos < 0
           THEN Raise("OSError") /\ UNCHANGED <<f_pos, data>>
           ELSE IF spos > Len(file) \/ h < 0 \/ w < 0
           THEN Raise("ValueError") /\ f_pos' = spos /\ UNCHANGED data
           ELSE /\ data' = flipud(reshape(fromfile(spos), h, w))
                /\ f_pos' = Len(file)
                /\ pc' = "done"
                /\ f_open' = FALSE
                /\ UNCHANGED err
    /\ UNCHANGED <<file, metadata, noimg, attachedRecipeSize, versleemdata,
                   img_header, position, b_iter, offset, last_tag, ret>>

----------------------------------------------------------------------------
(* The post-processing helpers, called on a constructed image *)

Returned(op, v) == [op |-> op, err |-> "none", v |-> v]

Raised(op, e) == [op |-> op, err |-> e, v |-> <<>>]

\* the outcome r of a helper call together with the argument a of the call
Called(r, a) == [op |-> r.op, err |-> r.err, v |-> r.v, arg |-> a]

\* an image given to normalizeOnCCD: w columns and h rows of the sample c
CCDImage(w, h, c) ==
    [isImage |-> TRUE, width |-> w, height |-> h,
     data |-> [i \in 1..h |-> [j \in 1..w |-> Num(c)]]]

NotAnImage == [isImage |-> FALSE, width |-> 0, height |-> 0, data |-> <<>>]

\* the arguments normalizeOnCCD is called with: an image of zeros and one
\* of twos that have the receiver's width and height, images with one
\* column or one row more, and something that is no image
CCDArgs ==
    { CCDImage(metadata[K_width].n, metadata[K_height].n, c) : c \in {0, 2} }
    \cup { CCDImage(metadata[K_width].n + 1, metadata[K_height].n, 2),
            CCDImage(metadata[K_width].n, metadata[K_height].n + 1, 2),
            NotAnImage }

\* np.divide(a, b) of two grids of one shape
GridQuot(a, b) ==
    [i \in 1..Len(a) |-> [j \in 1..Len(a[i]) |-> NumDiv(a[i][j], b[i][j])]]

\* normalizeOnCCD returning the quotient as it is
normalizeOnCCD_unscaled(lCCD) ==
    LET q == GridQuot(data, lCCD.data)
    IN  IF ~lCCD.isImage THEN Raised("normalizeOnCCD", "TypeError")
        ELSE IF metadata[K_width].n # lCCD.width \/ metadata[K_height].n # lCCD.height
          THEN Raised("normalizeOnCCD", "DimensionError")
        ELSE IF Flatten(q) = <<>> THEN Raised("normalizeOnCCD", "ValueError")
        ELSE Returned("normalizeOnCCD", q)

\* lines 294-303: the value normalizeOnCCD(lCCD) returns or the exception
\* it raises; max() of an empty array raises ValueError
normalizeOnCCD(lCCD) ==
    LET q == GridQuot(data, lCCD.data)
    IN  IF ~lCCD.isImage THEN Raised("normalizeOnCCD", "TypeError")
        ELSE IF metadata[K_width].n # lCCD.width \/ metadata[K_height].n # lCCD.height
          THEN Raised("normalizeOnCCD", "DimensionError")
        ELSE IF Flatten(q) = <<>> THEN Raised("normalizeOnCCD", "ValueError")
        ELSE Returned("normalizeOnCCD", GridDiv(q, ArrMax(Flatten(q))))

CallNormalizeOnCCD ==
    /\ pc = "done"
    /\ \E lCCD \in CCDArgs : ret' = Called(normalizeOnCCD(lCCD), lCCD)
    /\ UNCHANGED <<file, pc, f_open, f_pos, metadata, noimg, attachedRecipeSize,
                   versleemdata, img_header, position, b_iter, offset, last_tag,
                   data, err>>

\* line 309: self.data divided by its maximum
NormalizedData == GridDiv(data, ArrMax(Flatten(data)))

\* the value of sigma filterInelasticBkg is called with, its default
Sigmas == {15}

\* lines 305-311: self.data is replaced by itself divided by its maximum
\* (max() of an empty array raises ValueError); the value returned is that
\* grid minus its gaussian filter, kept as the pair of the grid and sigma
CallFilterInelasticBkg ==
    /\ pc = "done"
    /\ \E sigma \in Sigmas :
         IF Flatten(data) = <<>>
         THEN /\ ret' = Called(Raised("filterInelasticBkg", "ValueError"), sigma)
              /\ UNCHANGED data
         ELSE /\ data' = NormalizedData
              /\ ret' = Called(Returned("filterInelasticBkg", <<NormalizedData, sigma>>),
                               sigma)
    /\ UNCHANGED <<file, pc, f_open, f_pos, metadata, noimg, attachedRecipeSize,
                   versleemdata, img_header, position, b_iter, offset, last_tag,
                   err>>

\* inner_square_size(length): int(length / (2 * sqrt(2))) - 5, the integer
\* part being the largest k with 8 * k * k <= length * length
inner_square_size(length) ==
    (CHOOSE k \in 0..length :
        8 * k * k <= length * length /\ 8 * (k + 1) * (k + 1) > length * length) - 5

\* Python s[a:b] of a sequence s, for any integers a and b
PySlice(s, a, b) ==
    LET na == IF a < 0 THEN Max(a + Len(s), 0) ELSE Min(a, Len(s))
        nb == IF b < 0 THEN Max(b + Len(s), 0) ELSE Min(b, Len(s))
    IN  SubSeq(s, na + 1, nb)

\* lines 332-336: the inner square of a grid
InnerSquare(g) ==
    LET nrows     == Len(g)
        ncols     == IF g = <<>> THEN 0 ELSE Len(g[1])
        new_nrows == inner_square_size(nrows)
        new_ncols == inner_square_size(ncols)
        rows      == PySlice(g, (nrows \div 2) - new_nrows, (nrows \div 2) + new_nrows)
    IN  [i \in 1..Len(rows) |->
            PySlice(rows[i], (ncols \div 2) - new_ncols, (ncols \div 2) + new_ncols)]

\* lines 330-338: the grid is cut to its inner square when
\* self.metadata['LEED'] is False; a missing key is ignored
LevelsData(g) ==
    IF K_LEED \in DOMAIN metadata /\ metadata[K_LEED] = MdBool(FALSE)
    THEN InnerSquare(g) ELSE g

NBins == 30

\* the number x * k / m for integers k >= 0 and m > 0
NumScale(x, k, m) ==
    LET g1 == Gcd(Abs(x.n), m)
        g2 == Gcd(k, x.d)
    IN  Frac((x.n \div g1) * (k \div g2), (x.d \div g2) * (m \div g1))

\* the range np.histogram(xs, bins=30) takes for finite numbers xs: (0, 1)
\* for no numbers, widened by 0.5 on both sides when all numbers are equal
HistRange(xs) ==
    LET lo == ArrMin(xs)
        hi == ArrMax(xs)
    IN  IF xs = <<>> THEN <<Num(0), Num(1)>>
        ELSE IF lo = hi THEN <<NumSub(lo, Frac(1, 2)), NumAdd(hi, Frac(1, 2))>>
        ELSE <<lo, hi>>

\* the edge with index k (0..30) of a histogram over the range rg
HistEdge(rg, k) == NumAdd(rg[1], NumScale(NumSub(rg[2], rg[1]), k, NBins))

\* the index (0..29) of the bin of a histogram over the range rg the number
\* v falls in; the last bin holds its upper edge
HistBin(rg, v) ==
    IF v = rg[2] THEN NBins - 1
    ELSE LET q == NumDiv(NumScale(NumSub(v, rg[1]), NBins, 1), NumSub(rg[2], rg[1]))
         IN  q.n \div q.d

\* the counts hist with the numbers xs[i..] added to their bins
RECURSIVE CountFrom(_, _, _, _)
CountFrom(xs, i, rg, hist) ==
    IF i > Len(xs) THEN hist
    ELSE CountFrom(xs, i + 1, rg, [hist EXCEPT ![HistBin(rg, xs[i])] = @ + 1])

\* the counts of np.histogram(xs, bins=30), for the bins 0..29
Histogram(xs) == CountFrom(xs, 1, HistRange(xs), [k \in 0..(NBins - 1) |-> 0])

\* np.argmax(np.flipud(hist)): the first index, counted from the top bin,
\* of a bin with the largest count
ReverseArgmax(hist) ==
    CHOOSE r \in 0..(NBins - 1) :
        /\ \A k \in 0..(NBins - 1) : hist[k] <= hist[NBins - 1 - r]
        /\ \A q \in 0..(r - 1) : hist[NBins - 1 - q] < hist[NBins - 1 - r]

nhotpixel == 10

\* lines 340-352: (minlevel, maxlevel) of the numbers xs; edges[-0] is
\* edges[0]
Levels(xs) ==
    LET rg          == HistRange(xs)
        hist        == Histogram(xs)
        rn_maxlevel == ReverseArgmax(hist)
    IN  << HistEdge(rg, 0),
           IF hist[NBins - 1] < nhotpixel /\ 2 * hist[NBins - 2] < nhotpixel
           THEN HistEdge(rg, IF rn_maxlevel = 0 THEN 0 ELSE NBins + 1 - rn_maxlevel)
           ELSE HistEdge(rg, NBins - 1) >>

\* lines 313-352: the value get_levels(data) returns for a grid g, or the
\* ValueError of np.histogram on a nan or an inf
get_levels(g) ==
    LET xs == Flatten(LevelsData(g))
    IN  IF \E i \in 1..Len(xs) : ~IsFinite(xs[i])
        THEN Raised("get_levels", "ValueError")
        ELSE Returned("get_levels", Levels(xs))

\* the corrected grids get_levels is called with besides None
LevelsArgs == { <<<<Num(1), Num(3)>>>>, <<<<Num(0)>>, <<NumNan>>>> }

CallGetLevels ==
    /\ pc = "done"
    /\ \E g \in {data} \cup LevelsArgs : ret' = Called(get_levels(g), g)
    /\ UNCHANGED <<file, pc, f_open, f_pos, metadata, noimg, attachedRecipeSize,
                   versleemdata, img_header, position, b_iter, offset, last_tag,
                   data, err>>

----------------------------------------------------------------------------
(* The files the constructor is run on.  A file is laid out as the reader  *)
(* of lines 75-125 and 287 expects it and then cut to a length.            *)

\* the two bytes struct reads back as the 16-bit integer v
LE16(v) == LET u == IF v < 0 THEN v + 65536 ELSE v IN <<u % 256, u \div 256>>

\* the float 1.0, little-endian
F32One == <<0, 0, 128, 63>>

\* the pieces a generated metadata block is made of: whole records of every
\* shape, records with a malformed value, and stray bytes
Chunks ==
    << <<255>>,                                          \* the end tag
       <<0>>,                                            \* a NUL, no tag
       <<11, 65, 49, 0>> \o F32One,                      \* field 'A', unit '1'
       <<11, 65, 66, 0>> \o F32One,                      \* field, unit code 'B'
       <<11, 0>> \o F32One,                              \* field, empty text
       <<110, 76, 69, 69, 68, 0>> \o F32One,             \* FOV 'LEED'
       <<110, 110, 111, 110, 101, 0>> \o F32One,         \* FOV 'none'
       <<110, 50, 46, 53, 181, 109, 0>> \o F32One,       \* FOV '2.5µm'
       <<110, 120, 0>> \o F32One,                        \* FOV 'x'
       <<110, 53, 0>> \o F32One,                         \* FOV '5'
       <<110, 129, 0>> \o F32One,                        \* FOV, byte 0x81
       <<104>> \o F32One \o <<3>>,                       \* Camera Exposure
       <<106, 65, 0, 66, 0>> \o F32One,                  \* varian 'A', 'B'
       <<100>> \o F32One \o F32One,                      \* Mitutoyo
       <<233, 65, 0>>,                                   \* Image Title 'A'
       <<240, 255>>,                                     \* MirrorState1 = 255
       <<243>> \o F32One >>                              \* MCPscreen

RECURSIVE ConcatChunks(_)
ConcatChunks(ix) ==
    IF ix = <<>> THEN <<>> ELSE Chunks[Head(ix)] \o ConcatChunks(Tail(ix))

\* the metadata blocks made of at most MaxChunks chunks
Blocks ==
    UNION { { ConcatChunks(ix) : ix \in [1..k -> 1..Len(Chunks)] } : k \in 0..MaxChunks }

\* sample k of the payload: pattern 1 is k, pattern 2 is 256 + k
PayloadBytes(n, pat) ==
    [i \in 1..(2 * n) |-> IF i % 2 = 1 THEN ((i + 1) \div 2) % 256 ELSE pat - 1]

Zero8 == Rep(8, 0)

\* a file: width w, height h, recipe size r, timestamp bytes ts, metadata
\* block either in the 256-byte form (v2, padded with the end tag) or in
\* the long form (versleemdata = its length), payload pattern pat, and the
\* first keep bytes of all that
MakeFile(w, h, r, ts, v2, block, pat, keep) ==
    LET head1  == <<85, 75>> \o Rep(18, 0) \o LE16(104) \o LE16(2) \o LE16(16)
                  \o Rep(14, 0) \o LE16(w) \o LE16(h) \o LE16(1) \o LE16(r)
                  \o Rep(56, 0)
        recipe == IF r > 0 THEN Rep(Min(r, 128), 82) \o Rep(128 - Min(r, 128), 0)
                  ELSE <<>>
        head2  == LE16(288) \o LE16(5) \o LE16(0) \o LE16(255) \o ts
                  \o LE16(0) \o LE16(0) \o <<0>> \o <<0>> \o LE16(0) \o LE16(0)
                  \o LE16(IF v2 THEN 2 ELSE Len(block))
        meta   == IF v2 THEN block \o Rep(256 - Len(block), 255)
                  ELSE Rep(388, 0) \o block
        pix    == IF w > 0 /\ h > 0 THEN PayloadBytes(w * h, pat) ELSE <<>>
        all    == head1 \o recipe \o head2 \o meta \o pix
    IN  SubSeq(all, 1, IF keep < 0 THEN Max(0, Len(all) + keep) ELSE Min(keep, Len(all)))

\* lengths that end a file inside the fixed header
HeaderCuts == {0, 10, 21, 25, 41, 47, 103, 105, 111, 119, 125, 131}

Desc(w, h, r, ts, v2, block, pat, keep) ==
    [w |-> w, h |-> h, r |-> r, ts |-> ts, v2 |-> v2, block |-> block,
     pat |-> pat, keep |-> keep]

\* files whose metadata block is any generated block
MetaFiles ==
    { Desc(1, 1, 0, Zero8, v2, b, 1, 100000) :
        v2 \in BOOLEAN, b \in {x \in Blocks : Len(x) # 2} }

\* files of every width and height, whole, cut short at the end, or cut
\* inside the header
PixelFiles ==
    { Desc(w, h, 0, Zero8, TRUE, <<>>, pat, keep) :
        w \in -1..MaxDim, h \in -1..MaxDim, pat \in {1, 2},
        keep \in {100000} \cup {0 - c : c \in 1..MaxCut} \cup HeaderCuts }

\* files with a recipe size of every kind, and a file with a timestamp
\* past the last datetime
HeaderFiles ==
    { Desc(1, 1, r, Zero8, v2, <<>>, 1, keep) :
        r \in {-2, -1, 1, 128, 129}, v2 \in BOOLEAN, keep \in {100000, 110, 240} }
    \cup { Desc(1, 1, 0, Rep(8, 255), TRUE, <<>>, 1, 100000) }
    \cup { Desc(1, 1, 0, Zero8, FALSE, <<255>>, 1, keep) : keep \in {100000, -1} }
    \cup { Desc(20, 20, 0, Zero8, TRUE, <<>>, 1, 0 - 700) }

\* records whose name is a key the fixed header has written
NamedBlocks ==
    { <<11>> \o K_width \o <<49, 0>> \o F32One,
      <<106>> \o K_height \o <<0, 66, 0>> \o F32One,
      <<11>> \o K_timestamp \o <<49, 0>> \o F32One }

NamedFiles ==
    { Desc(1, 1, 0, Zero8, TRUE, b, 1, 100000) : b \in NamedBlocks }

Files == MetaFiles \cup PixelFiles \cup HeaderFiles \cup NamedFiles

NoMetadata == [x \in {} |-> MdNone]

NoReturn == [op |-> "none", err |-> "none", v |-> <<>>, arg |-> <<>>]

Init ==
    /\ \E d \in Files :
         file = MakeFile(d.w, d.h, d.r, d.ts, d.v2, d.block, d.pat, d.keep)
    /\ pc = "open"
    /\ f_open = FALSE
    /\ f_pos = 0
    /\ metadata = NoMetadata
    /\ noimg = 0
    /\ attachedRecipeSize = 0
    /\ versleemdata = 0
    /\ img_header = <<>>
    /\ position = 0
    /\ b_iter = 0
    /\ offset = Unbound
    /\ last_tag = -1
    /\ data = <<>>
    /\ err = "none"
    /\ ret = NoReturn

Next ==
    \/ Open
    \/ ReadHeader1
    \/ ReadRecipe
    \/ ReadHeader2
    \/ ReadBlock
    \/ TagStop
    \/ LoopEnd
    \/ TagField
    \/ TagFOV
    \/ TagExposure
    \/ TagVarian
    \/ TagMitutoyo
    \/ TagTitle
    \/ TagMirror
    \/ TagMCP
    \/ TagUnknown
    \/ ReadPixels
    \/ CallNormalizeOnCCD
    \/ CallFilterInelasticBkg
    \/ CallGetLevels

Spec == Init /\ [][Next]_vars

----------------------------------------------------------------------------
(* What the file holds, read off its bytes *)

\* the width and the height in the fixed header (file offsets 40 and 42)
HeaderWidth == Unpack_h(<<file[41], file[42]>>)

HeaderHeight == Unpack_h(<<file[43], file[44]>>)

\* sample number k (from 0) of the 2 * width * height bytes the file ends with
TrailingSample(k) ==
    LET at == Len(file) - 2 * HeaderWidth * HeaderHeight + 2 * k
    IN  file[at + 1] + 256 * file[at + 2]

\* the constructor has returned and no helper has been called yet
Decoded == pc = "done" /\ ret = NoReturn

\* the for-loop is about to deliver a byte that is no tag of any branch
AtUnknownTag ==
    /\ InLoop
    /\ NextByte \notin known_tags \cup varian_tags \cup branch_tags

\* the file offset the metadata block ends at, as the header declares it
MetaEnd ==
    (IF attachedRecipeSize # 0 THEN 232 ELSE 104) + 28
    + (IF versleemdata = 2 THEN 256 ELSE 388 + versleemdata)

----------------------------------------------------------------------------
(* Properties *)

\* C1: a decoded image has `height` rows of `width` entries each, width and
\* height being those of the fixed header, and its width * height samples
\* are 2 * width * height bytes of the file.
C1_PixelGridShape ==
    pc = "done" =>
        /\ Len(data) = HeaderHeight
        /\ \A i \in 1..Len(data) : Len(data[i]) = HeaderWidth
        /\ 2 * Len(Flatten(data)) = 2 * HeaderWidth * HeaderHeight
        /\ 2 * HeaderWidth * HeaderHeight <= Len(file)
        /\ f_pos = Len(file)

C1_Witness ==
    /\ pc = "done" /\ HeaderHeight = 2 /\ HeaderWidth = 1
    /\ Len(data) = 2 /\ Len(data[1]) = 1

\* C2: pixels[i][j] of a decoded image is sample (height-1-i)*width + j of
\* the trailing payload: the rows are in reverse file order, the order
\* inside a row is kept.
C2_RowsFlipped ==
    Decoded =>
        \A i \in 1..Len(data) : \A j \in 1..Len(data[i]) :
            data[i][j] = Num(TrailingSample((HeaderHeight - i) * HeaderWidth + (j - 1)))

\* the 2x2 payload [1, 2, 3, 4] decoded to [[3, 4], [1, 2]]
C2_Witness ==
    /\ Decoded
    /\ data = << <<Num(3), Num(4)>>, <<Num(1), Num(2)>> >>
    /\ TrailingSample(0) = 1 /\ TrailingSample(3) = 4

\* C3: the tag loop is left in exactly two ways: a 255 is read at a tag
\* position, or the cursor has reached the length of the block.
C3_TwoEndings ==
    [][ (pc = "tags" /\ pc' # "tags") =>
            \/ HasNext /\ NextByte = 255 /\ pc' = "pixels"
            \/ ~HasNext /\ position = Len(img_header) /\ pc' = "pixels" ]_vars

\* C4: an unrecognised tag at position p writes no metadata entry and the
\* next tag byte is read at p + 1.
C4_UnknownTagAdvancesByOne ==
    [][ AtUnknownTag =>
            /\ metadata' = metadata
            /\ pc' = "tags" => (position' = position + 1 /\ b_iter' = b_iter + 1) ]_vars

\* C5: an unrecognised tag never aborts the decode, the loop goes on with
\* the next record, also when the tag is the first record of the block.
C5_UnknownTagNeverAborts ==
    [][ AtUnknownTag => (pc' = "tags" /\ err' = "none") ]_vars

\* C6: a 255 at a tag position ends the loop with the metadata as it was,
\* nothing that follows it in the block is interpreted and the metadata
\* never changes afterwards; a 255 anywhere else does not end the loop.
C6_SentinelStops ==
    [][ /\ (InLoop /\ NextByte = 255) => (pc' = "pixels" /\ metadata' = metadata)
        /\ (last_tag = 255 /\ pc # "tags") => (metadata' = metadata /\ pc' # "tags")
        /\ (InLoop /\ NextByte # 255) => pc' # "pixels" ]_vars

\* the loop was ended by a 255 that a FOV record follows in the block, the
\* image is decoded and has no FOV
C6_Witness ==
    /\ pc = "done" /\ last_tag = 255
    /\ b_iter < Len(img_header) /\ img_header[b_iter + 1] = 110
    /\ K_FOV \notin DOMAIN metadata

\* C7: a truncated file never yields an image: not when it ends inside the
\* fixed header, not when fewer than 2 * width * height bytes follow the
\* metadata block.
C7_TruncatedFails ==
    pc = "done" =>
        /\ Len(file) >= (IF attachedRecipeSize # 0 THEN 232 ELSE 104) + 28
        /\ Len(file) - MetaEnd >= 2 * HeaderWidth * HeaderHeight

\* the text of the standard-field record at the cursor, and whether the
\* record lies inside the block: text, NUL and the four bytes of the value
FieldText == SplitNul0(SliceFrom(img_header, position + 1))

FieldComplete == position + Len(FieldText) + 6 <= Len(img_header)

\* C8: a standard-field record whose unit code is no digit, or whose text
\* is empty, does not abort the decode: the loop goes on.
C8_MalformedFieldIsLocal ==
    [][ ( /\ InLoop /\ NextByte \in known_tags /\ FieldComplete
          /\ Decodable(FieldText)
          /\ (FieldText = <<>> \/ ~IsDigit(FieldText[Len(FieldText)])) )
        => (pc' = "tags" /\ err' = "none") ]_vars

\* the text of the FOV record at the cursor, and whether the record lies
\* inside the block and its text is cp1252
FovText == SplitNul0(SliceFrom(img_header, position + 1))

FovInBlock == position + Len(FovText) + 6 <= Len(img_header)

T_LEED == <<76, 69, 69, 68>>

T_none == <<110, 111, 110, 101>>

\* a decimal numeral: digits, or digits with one '.', at least one digit
IsNumeral(t) ==
    LET dot == IndexOf(t, 46)
        ip  == IF dot = 0 THEN t ELSE SubSeq(t, 1, dot - 1)
        fp  == IF dot = 0 THEN <<>> ELSE SubSeq(t, dot + 1, Len(t))
    IN  AllDigits(ip) /\ AllDigits(fp) /\ Len(ip) + Len(fp) >= 1

\* the number a decimal numeral writes, as n * 10^e
NumeralValue(t) ==
    LET dot == IndexOf(t, 46)
        ip  == IF dot = 0 THEN t ELSE SubSeq(t, 1, dot - 1)
        fp  == IF dot = 0 THEN <<>> ELSE SubSeq(t, dot + 1, Len(t))
    IN  Normal(DigitsVal(ip \o fp), 0 - Len(fp))

\* a text '<number>µm': a decimal numeral followed by 'µm' and nothing else
IsNumberUm(t) ==
    /\ Len(t) >= 2
    /\ SubSeq(t, Len(t) - 1, Len(t)) = U_um
    /\ IsNumeral(SubSeq(t, 1, Len(t) - 2))

\* the entry of key in md is the same as in md2: absent in both, or equal
SameEntry(md, md2, key) ==
    /\ (key \in DOMAIN md) <=> (key \in DOMAIN md2)
    /\ key \in DOMAIN md => md[key] = md2[key]

\* the value the list [number, 'µm'] has for a decimal numeral t
FovOf(t) ==
    [k |-> "num", n |-> NumeralValue(t).n, e |-> NumeralValue(t).e,
     s |-> <<>>, u |-> U_um]

\* C9: a FOV record sets the FOV state from its text: 'LEED...' gives
\* isLEED = true and fieldOfView = None, 'none...' gives fieldOfView = None
\* and keeps isLEED, '<number>µm' gives (number, 'µm'), any other text
\* leaves fieldOfView as it was; in every case decoding continues.
C9_FovStates ==
    [][ (InLoop /\ NextByte = 110 /\ FovInBlock) =>
          /\ pc' = "tags"
          /\ Decodable(FovText) =>
               LET t == Decode(FovText)
               IN  /\ StartsWith(t, T_LEED) =>
                         /\ metadata'[K_LEED] = MdBool(TRUE)
                         /\ metadata'[K_FOV] = MdNone
                   /\ StartsWith(t, T_none) =>
                         /\ metadata'[K_FOV] = MdNone
                         /\ SameEntry(metadata, metadata', K_LEED)
                   /\ IsNumberUm(t) =>
                         metadata'[K_FOV] = FovOf(SubSeq(t, 1, Len(t) - 2))
                   /\ (~StartsWith(t, T_LEED) /\ ~StartsWith(t, T_none)
                         /\ ~IsNumberUm(t)) =>
                         SameEntry(metadata, metadata', K_FOV) ]_vars

\* C10: no call of a helper changes the pixel grid or the metadata of a
\* constructed image.
C10_HelpersLeaveImage ==
    [][ pc = "done" => (data' = data /\ metadata' = metadata) ]_vars

\* C11: on every exit path of the constructor (completion, a truncated
\* header, an error in a metadata record, a failed seek or reshape) the
\* file f is closed; while the constructor runs past open(), f is open.
C11_FileClosedOnExit ==
    /\ pc \in {"done", "error"} => ~f_open
    /\ pc \in {"header1", "recipe", "header2", "block", "tags", "pixels"} => f_open

\* the constructor has ended by the UnicodeDecodeError of a record and f is
\* closed
C11_Witness ==
    /\ pc = "error" /\ err = "UnicodeDecodeError"
    /\ last_tag = 110
    /\ ~f_open

\* a step that is a call of normalizeOnCCD with an image
NormalizeStep == pc = "done" /\ ret'.op = "normalizeOnCCD" /\ ret'.arg.isImage

\* the image lCCD has the width and the height of the receiver
SameDimensions(lCCD) == lCCD.width = HeaderWidth /\ lCCD.height = HeaderHeight

\* the grid a divided element by element by the grid b, then by the
\* maximum of those quotients
RescaledQuotient(a, b) ==
    LET m == ArrMax([k \in 1..Len(Flatten(a)) |-> NumDiv(Flatten(a)[k], Flatten(b)[k])])
    IN  [i \in 1..Len(a) |-> [j \in 1..Len(a[i]) |->
            NumDiv(NumDiv(a[i][j], b[i][j]), m)]]

\* C12: normalizeOnCCD with an image of another width or height reports a
\* DimensionError and leaves the pixel data alone; with an image of the same
\* width and height it reports no error and returns the element-wise
\* quotient divided by its maximum.
C12_NormalizeOnCCD ==
    [][ NormalizeStep =>
          /\ data' = data
          /\ ~SameDimensions(ret'.arg) => ret'.err = "DimensionError"
          /\ SameDimensions(ret'.arg) =>
                /\ ret'.err = "none"
                /\ ret'.v = RescaledQuotient(data, ret'.arg.data) ]_vars

\* C12 as amended: with an image of the same width and height and at least
\* one pixel the rescaled quotient is returned; with no pixel (width or
\* height 0) the maximum of an empty array raises ValueError.
C12_NormalizeOnCCDAmended ==
    [][ NormalizeStep =>
          /\ data' = data
          /\ ~SameDimensions(ret'.arg) => ret'.err = "DimensionError"
          /\ (SameDimensions(ret'.arg) /\ HeaderWidth * HeaderHeight > 0) =>
                /\ ret'.err = "none"
                /\ ret'.v = RescaledQuotient(data, ret'.arg.data)
          /\ (SameDimensions(ret'.arg) /\ HeaderWidth * HeaderHeight = 0) =>
                ret'.err = "ValueError" ]_vars

\* normalizeOnCCD has returned the 1 x 2 grid (1/2, 1) for the samples 1, 2
\* and a CCD image of twos
C12_Witness ==
    /\ pc = "done" /\ ret.op = "normalizeOnCCD" /\ ret.err = "none"
    /\ ret.arg = CCDImage(2, 1, 2)
    /\ data = << <<Num(1), Num(2)>> >>
    /\ ret.v = << <<Frac(1, 2), Num(1)>> >>

\* a step that is a call of get_levels that returns
LevelsStep == pc = "done" /\ ret'.op = "get_levels" /\ ret'.err = "none"

\* the highest bin of the counts hist that holds a number
TopNonEmptyBin(hist) ==
    CHOOSE k \in 0..(NBins - 1) :
        hist[k] > 0 /\ \A q \in (k + 1)..(NBins - 1) : hist[q] = 0

\* C13: get_levels returns the lowest edge as min level; when the top bin
\* holds fewer than 10 numbers and the bin below it fewer than 5, the max
\* level is the lower edge of the first non-empty bin met walking down from
\* the top bin, otherwise it is the edge below the top bin.
C13_HotPixelLevels ==
    [][ LevelsStep =>
          LET xs   == Flatten(LevelsData(ret'.arg))
              rg   == HistRange(xs)
              hist == Histogram(xs)
          IN  /\ ret'.v[1] = HistEdge(rg, 0)
              /\ (hist[NBins - 1] < 10 /\ hist[NBins - 2] < 5 /\ xs # <<>>) =>
                    ret'.v[2] = HistEdge(rg, TopNonEmptyBin(hist))
              /\ ~(hist[NBins - 1] < 10 /\ hist[NBins - 2] < 5) =>
                    ret'.v[2] = HistEdge(rg, NBins - 1) ]_vars

\* the bytes after the cursor up to the first and from there to the second
\* NUL
Text1 == SplitNul0(SliceFrom(img_header, position + 1))

Text2 == SplitNul1(SliceFrom(img_header, position + 1))

\* the number of payload bytes of the record with tag b at the cursor, with
\* e bytes for the Camera Exposure payload and m for a mirror state payload
PayloadBytesOf(b, e, m) ==
    IF b \in known_tags \cup {110} THEN Len(Text1) + 1 + 4
    ELSE IF b \in varian_tags THEN Len(Text1) + 1 + Len(Text2) + 1 + 4
    ELSE IF b = 100 THEN 8
    ELSE IF b = 233 THEN Len(Text1) + 1
    ELSE IF b = 104 THEN e
    ELSE IF b \in {240, 242} THEN m
    ELSE 4

\* the loop takes a recognised record at the cursor and goes on
RecordStep ==
    /\ InLoop /\ NextByte \in known_tags \cup varian_tags \cup (branch_tags \ {255})
    /\ pc' = "tags"

\* C14: after a recognised record with its tag at cursor p the next tag is
\* read at p + 1 + payload bytes, the payload of tag 104 being 5 bytes (6
\* with the tag) and that of tags 240 / 242 being 1 byte (2 with the tag).
C14_CursorAdvance ==
    [][ RecordStep =>
          /\ position' = position + 1 + PayloadBytesOf(NextByte, 5, 1)
          /\ b_iter' = position' ]_vars

\* C14 as amended: tag 104 takes 6 bytes after the tag (the float, the
\* count and one byte more) and tags 240 / 242 take 2 bytes after the tag.
C14_CursorAdvanceAmended ==
    [][ RecordStep =>
          /\ position' = position + 1 + PayloadBytesOf(NextByte, 6, 2)
          /\ b_iter' = position' ]_vars

\* a Camera Exposure record at cursor 0 has been decoded and the next tag is
\* read at 7
C14_Witness ==
    /\ pc = "tags" /\ last_tag = 104 /\ img_header[1] = 104
    /\ position = 7 /\ b_iter = 7
    /\ K_Average_Images \in DOMAIN metadata

\* the image is a diffraction image: its metadata holds LEED = True
IsLEED == K_LEED \in DOMAIN metadata /\ metadata[K_LEED] = MdBool(TRUE)

\* C15: get_levels takes its levels from the inner square of the grid
\* exactly when the image is no diffraction image, be it by a FOV record
\* with a number, by a FOV record 'none' or without any FOV record, and
\* from the full grid when isLEED is true.
C15_InnerSquareUnlessLEED ==
    [][ LevelsStep =>
          ret'.v = Levels(Flatten(IF IsLEED THEN ret'.arg
                                  ELSE InnerSquare(ret'.arg))) ]_vars

\* C16: with a recipe size above 0 that many bytes are read as the recipe
\* and the image header is read from file offset 232, whatever the size;
\* with a recipe size of 0 or below no recipe is read, nothing is skipped
\* and the image header is read from file offset 104.
C16_RecipeOffsets ==
    [][ (pc = "recipe" /\ Len(file) >= 104 + Max(attachedRecipeSize, 128)) =>
          IF attachedRecipeSize > 0
          THEN /\ pc' = "header2"
               /\ f_pos' = 232
               /\ metadata'[K_recipe] = MdBytes(Slice(file, 104, 104 + attachedRecipeSize))
          ELSE /\ pc' = "header2"
               /\ f_pos' = 104
               /\ metadata' = metadata ]_vars

\* the keys of the metadata mapping the fixed header writes
HeaderKeys ==
    {K_id, K_size, K_version, K_bitsperpix, K_width, K_height, K_recipe,
     K_isize, K_iversion, K_colorscale_low, K_colorscale_high, K_timestamp,
     K_mask_xshift, K_mask_yshift, K_usemask, K_att_markupsize, K_spin}

\* C17: no record of the tagged block changes an entry the fixed header has
\* written, whatever name the record carries: width and height stay the
\* numbers of the fixed header up to the pixel read.
C17_HeaderEntriesKept ==
    [][ pc = "tags" => \A key \in HeaderKeys : SameEntry(metadata, metadata', key) ]_vars

\* C18: whenever the tag loop is about to take a byte from the iterator,
\* that byte is the byte at index position of the block: the iterator has
\* consumed exactly position bytes, after every record shape and after an
\* unrecognised tag.
C18_IteratorInStep ==
    pc = "tags" =>
        /\ b_iter = position
        /\ HasNext => NextByte = img_header[position + 1]

\* the loop goes on after an unrecognised tag that followed a record, with
\* the iterator and the position both advanced by the record's offset
C18_Witness ==
    /\ InLoop /\ last_tag = 0
    /\ offset = 2 /\ position = 6 /\ b_iter = 6
    /\ SubSeq(img_header, 1, 4) = <<240, 255, 243, 0>>

====
